---- MODULE Spec2Model ----
(***************************************************************************)
(* Reverse geofencing service (src/app.py, src/utils/geo_utils.py).        *)
(*                                                                         *)
(* State: the process-wide GeoDataFrame gdf, the return value of           *)
(* load_shapefile, and the response of the request being answered.         *)
(* Operations: load_shapefile, the Flask handlers home, api_info, locate   *)
(* and health, and the helpers validate_coordinates and point_in_polygon.  *)
(*                                                                         *)
(* Python values are records, so that values of different Python types     *)
(* can be compared: None, PyStr, PyNum, PyBool, PyList.                    *)
(***************************************************************************)
EXTENDS Integers, Sequences, FiniteSets, TLC

VARIABLES gdf, loadResult, resp

vars == <<gdf, loadResult, resp>>

(***************************************************************************)
(* Bounds of the model.                                                    *)
(***************************************************************************)
\* a store holds at most MaxRows records
MaxRows == 2
\* query coordinates are sampled on 0..GridMax, next to the range limits
GridMax == 4

(***************************************************************************)
(* Python values.                                                          *)
(***************************************************************************)
None == [none |-> TRUE]
PyStr(s) == [str |-> s]
PyNum(n) == [num |-> n]
PyBool(b) == [bool |-> b]
PyList(q) == [list |-> q]
NaN == [nan |-> TRUE]

\* str(x) of a cell value: a string, or None
Str(v) == IF v = None THEN PyStr("None") ELSE v

\* d[k] = v on a dict
Put(d, k, v) == [x \in (DOMAIN d) \cup {k} |-> IF x = k THEN v ELSE d[x]]

EmptyDict == [x \in {} |-> None]

(***************************************************************************)
(* Range limits of the coordinate validation.                              *)
(***************************************************************************)
LatMin == -90
LatMax == 90
LonMin == -180
LonMax == 180

(***************************************************************************)
(* Geometry: shapely's Point and Polygon.contains on integer coordinates.  *)
(* A ring is a closed sequence of vertices [x, y] (first = last).          *)
(* A polygon is [shell, holes]; a missing geometry is NoGeometry.          *)
(***************************************************************************)
\* Point(lon, lat): shapely takes (x, y) = (lon, lat)
Point(lon, lat) == [x |-> lon, y |-> lat]

Cross(a, b, p) == (b.x - a.x) * (p.y - a.y) - (b.y - a.y) * (p.x - a.x)

Min2(a, b) == IF a <= b THEN a ELSE b
Max2(a, b) == IF a >= b THEN a ELSE b

\* p lies on the closed segment a-b
OnSegment(a, b, p) ==
    /\ Cross(a, b, p) = 0
    /\ Min2(a.x, b.x) <= p.x /\ p.x <= Max2(a.x, b.x)
    /\ Min2(a.y, b.y) <= p.y /\ p.y <= Max2(a.y, b.y)

\* p lies on an edge or a vertex of the ring
OnRing(ring, p) ==
    \E i \in 1..(Len(ring) - 1) : OnSegment(ring[i], ring[i + 1], p)

\* the edge a-b crosses the horizontal ray from p towards +x
EdgeCrossesRay(a, b, p) ==
    /\ (a.y > p.y) # (b.y > p.y)
    /\ LET dy == b.y - a.y
           lhs == (p.x - a.x) * dy
           rhs == (p.y - a.y) * (b.x - a.x)
       IN IF dy > 0 THEN lhs < rhs ELSE lhs > rhs

\* p is strictly inside the ring (even-odd rule, boundary excluded)
InsideRing(ring, p) ==
    /\ ~OnRing(ring, p)
    /\ Cardinality({i \in 1..(Len(ring) - 1) :
                       EdgeCrossesRay(ring[i], ring[i + 1], p)}) % 2 = 1

NoGeometry == [missing |-> TRUE]

Polygon(shell, holes) == [shell |-> shell, holes |-> holes, valid |-> TRUE]

\* a polygon whose rings the predicate cannot be evaluated on
InvalidPolygon(shell) == [shell |-> shell, holes |-> <<>>, valid |-> FALSE]

\* shapely: polygon.contains(point) holds when the point lies in the interior
\* of the polygon: strictly inside the shell, and neither inside nor on a hole
PolygonContains(g, p) ==
    /\ InsideRing(g.shell, p)
    /\ \A h \in 1..Len(g.holes) :
          ~InsideRing(g.holes[h], p) /\ ~OnRing(g.holes[h], p)

\* one element of GeoSeries.contains: a missing geometry gives False
GeomContains(g, p) ==
    IF g = NoGeometry THEN FALSE ELSE PolygonContains(g, p)

\* p lies on the boundary of the geometry (an edge or vertex of a ring)
OnBoundary(g, p) ==
    /\ g # NoGeometry
    /\ \/ OnRing(g.shell, p)
       \/ \E h \in 1..Len(g.holes) : OnRing(g.holes[h], p)

(***************************************************************************)
(* Coordinate reference systems: to_crs("EPSG:4326").  The projected       *)
(* system is a metric grid of ProjScale units per degree.                  *)
(***************************************************************************)
Wgs84 == PyStr("EPSG:4326")
Projected == PyStr("EPSG:3857")
ProjScale == 3

ProjectPoint(v) == [x |-> v.x * ProjScale, y |-> v.y * ProjScale]
UnprojectPoint(v) == [x |-> v.x \div ProjScale, y |-> v.y \div ProjScale]

ProjectRing(ring) == [i \in 1..Len(ring) |-> ProjectPoint(ring[i])]
UnprojectRing(ring) == [i \in 1..Len(ring) |-> UnprojectPoint(ring[i])]

\* the geometry as stored in a file of the projected system
ProjectGeom(g) ==
    IF g = NoGeometry THEN g
    ELSE [g EXCEPT !.shell = ProjectRing(g.shell),
                   !.holes = [h \in 1..Len(g.holes) |-> ProjectRing(g.holes[h])]]

\* the geometry transformed to lon/lat degrees
UnprojectGeom(g) ==
    IF g = NoGeometry THEN g
    ELSE [g EXCEPT !.shell = UnprojectRing(g.shell),
                   !.holes = [h \in 1..Len(g.holes) |-> UnprojectRing(g.holes[h])]]

\* GeoDataFrame.to_crs("EPSG:4326") on a frame with a known CRS
ToCrs(frame) ==
    [frame EXCEPT !.crs = Wgs84,
                  !.rows = [i \in 1..Len(frame.rows) |->
                              [frame.rows[i] EXCEPT
                                 !.geometry = UnprojectGeom(@)]]]

\* to_crs raises ValueError on a frame without a CRS (no .prj next to the .shp)
ToCrsRaises(frame) == frame.crs = None

(***************************************************************************)
(* Query strings: request.args.get() gives None or a text, float() parses  *)
(* it.  A text is a sequence of characters.                                *)
(***************************************************************************)
DigitChars == <<"0", "1", "2", "3", "4", "5", "6", "7", "8", "9">>

DigitValue(c) == CHOOSE d \in 0..9 : DigitChars[d + 1] = c

IsDigit(c) == \E d \in 0..9 : DigitChars[d + 1] = c

RECURSIVE FormatNat(_)
FormatNat(n) ==
    IF n < 10 THEN <<DigitChars[n + 1]>>
    ELSE Append(FormatNat(n \div 10), DigitChars[(n % 10) + 1])

\* f"{n}" of an integer
Format(n) == IF n < 0 THEN <<"-">> \o FormatNat(-n) ELSE FormatNat(n)

RECURSIVE ParseNat(_)
ParseNat(t) ==
    IF Len(t) = 1 THEN DigitValue(t[1])
    ELSE 10 * ParseNat(SubSeq(t, 1, Len(t) - 1)) + DigitValue(t[Len(t)])

AllDigits(t) == Len(t) > 0 /\ \A i \in 1..Len(t) : IsDigit(t[i])

NanText == <<"n", "a", "n">>

\* float(x): [ok |-> FALSE] stands for TypeError (None) or ValueError (text)
PyFloat(x) ==
    IF x = None THEN [ok |-> FALSE]
    ELSE LET t == x.str
             signed == Len(t) > 0 /\ t[1] \in {"-", "+"}
             body == IF signed THEN SubSeq(t, 2, Len(t)) ELSE t
         IN IF AllDigits(body)
            THEN [ok |-> TRUE,
                  val |-> PyNum(IF signed /\ t[1] = "-"
                                THEN 0 - ParseNat(body) ELSE ParseNat(body))]
            ELSE IF body = NanText THEN [ok |-> TRUE, val |-> NaN]
            ELSE [ok |-> FALSE]

\* lo <= v <= hi on floats: every comparison with nan is False
Between(lo, v, hi) == v # NaN /\ lo <= v.num /\ v.num <= hi

(***************************************************************************)
(* GeoDataFrame: [crs, columns, rows]; columns is the ordered column index *)
(* ("geometry" last), a row is [geometry, cells] with one cell per         *)
(* attribute column.                                                       *)
(***************************************************************************)
GeometryColumn == "geometry"

\* len(gdf)
FrameLen(frame) == Len(frame.rows)

\* the cell texts of the sample data, in the order of Python's str comparison
ColumnOrder == <<"DISTRICT", "ST_NM", "coordinates", "shape1", "shapeiso", "status">>
LabelOrder == <<"Alpha", "Delta", "Gamma", "Zeta">>

StrRank(v) ==
    CHOOSE r \in 1..(Len(ColumnOrder) * Len(LabelOrder)) :
        \E c \in 1..Len(ColumnOrder), l \in 1..Len(LabelOrder) :
            /\ v.str = ColumnOrder[c] \o ":" \o LabelOrder[l]
            /\ r = (c - 1) * Len(LabelOrder) + l

\* a < b on two str values
StrLess(a, b) == StrRank(a) < StrRank(b)

\* Series.unique().tolist(): the distinct values in order of first appearance
Unique(values) ==
    LET U[i \in 0..Len(values)] ==
          IF i = 0 THEN <<>>
          ELSE IF \E j \in 1..Len(U[i - 1]) : U[i - 1][j] = values[i]
               THEN U[i - 1]
               ELSE Append(U[i - 1], values[i])
    IN U[Len(values)]

\* sorted() raises TypeError when it has to compare None with a str
SortedRaises(values) ==
    Len(values) >= 2 /\ \E i \in 1..Len(values) : values[i] = None

InsertSorted(sorted, v) ==
    LET k == Cardinality({i \in 1..Len(sorted) : ~StrLess(v, sorted[i])})
    IN SubSeq(sorted, 1, k) \o <<v>> \o SubSeq(sorted, k + 1, Len(sorted))

\* sorted(values) of values that can be compared
Sorted(values) ==
    LET S[i \in 0..Len(values)] ==
          IF i = 0 THEN <<>> ELSE InsertSorted(S[i - 1], values[i])
    IN S[Len(values)]

\* gdf[col]: the column as a list of cells
Column(frame, col) == [i \in 1..Len(frame.rows) |-> frame.rows[i].cells[col]]

HasColumn(frame, col) == \E i \in 1..Len(frame.columns) : frame.columns[i] = col

\* gdf.contains(point): the boolean mask over the rows
Contains(frame, point) ==
    [i \in 1..Len(frame.rows) |-> GeomContains(frame.rows[i].geometry, point)]

\* the predicate cannot be evaluated on a malformed geometry: GEOS raises
ContainsRaises(frame) ==
    \E i \in 1..Len(frame.rows) :
        frame.rows[i].geometry # NoGeometry /\ ~frame.rows[i].geometry.valid

\* gdf[mask]: the rows selected by the mask, in frame order
Select(frame, mask) ==
    LET F[i \in 0..Len(frame.rows)] ==
          IF i = 0 THEN <<>>
          ELSE IF mask[i] THEN Append(F[i - 1], frame.rows[i]) ELSE F[i - 1]
    IN [frame EXCEPT !.rows = F[Len(frame.rows)]]

\* matches.empty
Empty(frame) == Len(frame.rows) = 0

\* matches.iloc[0]: the first row as a Series indexed by the columns
IlocLast(frame) ==
    [index |-> frame.columns,
     geometry |-> frame.rows[Len(frame.rows)].geometry,
     cells |-> frame.rows[Len(frame.rows)].cells]

Iloc0(frame) ==
    [index |-> frame.columns,
     geometry |-> frame.rows[1].geometry,
     cells |-> frame.rows[1].cells]

\* col in result.index
InIndex(result, col) == \E i \in 1..Len(result.index) : result.index[i] = col

(***************************************************************************)
(* Responses.  A response is [op, args, code, body]; body is the JSON      *)
(* object as a function from keys to values.                               *)
(***************************************************************************)
MsgNotLoaded == "Shapefile not loaded. Server initialization failed."
MsgParams == "Invalid or missing parameters. Provide 'lat' and 'lon' as numbers."
MsgRange == "Coordinates out of valid range. Lat: [-90, 90], Lon: [-180, 180]"
MsgNoRegion == "Coordinates do not fall within any mapped region."
MsgInternal == "Internal server error: "
MsgNumeric == "Coordinates must be numeric values"
MsgLatitude == "Latitude must be between -90 and 90"
MsgLongitude == "Longitude must be between -180 and 180"

ErrorBody(message) ==
    Put(Put(EmptyDict, "status", PyStr("error")), "message", PyStr(message))

\* f"This shapefile only contains {len(gdf)} states/regions."
Note(n) ==
    PyStr(<<"This shapefile only contains ">> \o Format(n) \o <<" states/regions.">>)

Coordinates(lat, lon) == [latitude |-> lat, longitude |-> lon]

\* the state labels of the not_found answer
AvailableStates(frame) ==
    IF HasColumn(frame, "shape1")
    THEN Sorted(Unique(Column(frame, "shape1")))
    ELSE <<>>

AvailableStatesRaises(frame) ==
    HasColumn(frame, "shape1") /\ SortedRaises(Unique(Column(frame, "shape1")))

NotFoundBody(frame, lat, lon) ==
    LET b1 == Put(EmptyDict, "status", PyStr("not_found"))
        b2 == Put(b1, "message", PyStr(MsgNoRegion))
        b3 == Put(b2, "lat", lat)
        b4 == Put(b3, "lon", lon)
        b5 == Put(b4, "note", Note(FrameLen(frame)))
    IN Put(b5, "available_regions", PyList(AvailableStates(frame)))

\* possible_names, in dict order
PossibleNames ==
    << [key |-> "state",
        cols |-> <<"state", "ST_NM", "NAME_1", "STATE", "State", "shape1">>],
       [key |-> "district",
        cols |-> <<"district", "DISTRICT", "NAME_2", "District">>],
       [key |-> "state_code",
        cols |-> <<"shapeiso", "ISO", "STATE_CODE">>] >>

\* the inner loop with its break: the first alias that is a column, or 0
FirstAlias(cols, result) ==
    IF \E i \in 1..Len(cols) : InIndex(result, cols[i])
    THEN CHOOSE i \in 1..Len(cols) :
            /\ InIndex(result, cols[i])
            /\ \A j \in 1..(i - 1) : ~InIndex(result, cols[j])
    ELSE 0

\* for key, possible_cols in possible_names.items(): ...
AddNames(response, result) ==
    LET R[k \in 0..Len(PossibleNames)] ==
          IF k = 0 THEN response
          ELSE LET a == FirstAlias(PossibleNames[k].cols, result)
               IN IF a = 0 THEN R[k - 1]
                  ELSE Put(R[k - 1], PossibleNames[k].key,
                           Str(result.cells[PossibleNames[k].cols[a]]))
    IN R[Len(PossibleNames)]

\* for col in result.index: if col != 'geometry': response[col] = str(...)
AddRawColumns(response, result) ==
    LET R[i \in 0..Len(result.index)] ==
          IF i = 0 THEN response
          ELSE IF result.index[i] # GeometryColumn
               THEN Put(R[i - 1], result.index[i], Str(result.cells[result.index[i]]))
               ELSE R[i - 1]
    IN R[Len(result.index)]

\* the condition of the raw-column fallback
NeedsRawColumns(response) == "state" \notin DOMAIN response

SuccessBody(result, lat, lon) ==
    LET b1 == Put(EmptyDict, "status", PyStr("success"))
        b2 == Put(b1, "coordinates", Coordinates(lat, lon))
        b3 == AddNames(b2, result)
    IN IF NeedsRawColumns(b3) THEN AddRawColumns(b3, result) ELSE b3

\* the range test of locate
CoordinatesOutOfRange(lat, lon) ==
    ~Between(LatMin, lat, LatMax) \/ ~Between(LonMin, lon, LonMax)

\* locate(): the status code and the body for the two query arguments
LocateAnswer(frame, latArg, lonArg) ==
    IF frame = None
    THEN [code |-> 500, body |-> ErrorBody(MsgNotLoaded)]
    ELSE IF ~PyFloat(latArg).ok \/ ~PyFloat(lonArg).ok
    THEN [code |-> 400, body |-> ErrorBody(MsgParams)]
    ELSE LET lat == PyFloat(latArg).val
             lon == PyFloat(lonArg).val
         IN IF CoordinatesOutOfRange(lat, lon)
            THEN [code |-> 400, body |-> ErrorBody(MsgRange)]
            ELSE IF ContainsRaises(frame)
            THEN [code |-> 500, body |-> ErrorBody(MsgInternal \o "GEOSException")]
            ELSE LET point == Point(lon.num, lat.num)
                     matches == Select(frame, Contains(frame, point))
                 IN IF Empty(matches)
                    THEN IF AvailableStatesRaises(frame)
                         THEN [code |-> 500,
                               body |-> ErrorBody(MsgInternal \o "TypeError")]
                         ELSE [code |-> 404, body |-> NotFoundBody(frame, lat, lon)]
                    ELSE [code |-> 200,
                          body |-> SuccessBody(Iloc0(matches), lat, lon)]

\* validate_coordinates(lat, lon): the tuple (is_valid, error_message)
IsNumeric(v) == "num" \in DOMAIN v \/ v = NaN

ValidateCoordinatesLonFirst(lat, lon) ==
    IF ~IsNumeric(lat) \/ ~IsNumeric(lon) THEN <<PyBool(FALSE), PyStr(MsgNumeric)>>
    ELSE IF ~Between(LonMin, lon, LonMax) THEN <<PyBool(FALSE), PyStr(MsgLongitude)>>
    ELSE IF ~Between(LatMin, lat, LatMax) THEN <<PyBool(FALSE), PyStr(MsgLatitude)>>
    ELSE <<PyBool(TRUE), None>>

ValidateCoordinates(lat, lon) ==
    IF ~IsNumeric(lat) \/ ~IsNumeric(lon) THEN <<PyBool(FALSE), PyStr(MsgNumeric)>>
    ELSE IF ~Between(LatMin, lat, LatMax) THEN <<PyBool(FALSE), PyStr(MsgLatitude)>>
    ELSE IF ~Between(LonMin, lon, LonMax) THEN <<PyBool(FALSE), PyStr(MsgLongitude)>>
    ELSE <<PyBool(TRUE), None>>

\* point_in_polygon(lat, lon, gdf): the tuple (found, result)
PointInPolygonAnswer(frame, lat, lon) ==
    LET matches == Select(frame, Contains(frame, Point(lon.num, lat.num)))
    IN IF Empty(matches) THEN <<PyBool(FALSE), None>>
       ELSE <<PyBool(TRUE), Iloc0(matches)>>

(***************************************************************************)
(* Sample data: the regions a shapefile may hold and the column layouts    *)
(* it may have.                                                            *)
(***************************************************************************)
Rect(x0, y0, x1, y1) ==
    << [x |-> x0, y |-> y0], [x |-> x1, y |-> y0], [x |-> x1, y |-> y1],
       [x |-> x0, y |-> y1], [x |-> x0, y |-> y0] >>

Triangle(x0, y0, d) ==
    << [x |-> x0, y |-> y0], [x |-> x0 + d, y |-> y0], [x |-> x0, y |-> y0 + d],
       [x |-> x0, y |-> y0] >>

Bowtie(x0, y0, d) ==
    << [x |-> x0, y |-> y0], [x |-> x0 + d, y |-> y0 + d], [x |-> x0 + d, y |-> y0],
       [x |-> x0, y |-> y0 + d], [x |-> x0, y |-> y0] >>

\* a region: a geometry in lon/lat degrees and the label of its record
\* (None: the attribute fields of the record are empty)
Regions ==
    { [geometry |-> Polygon(Rect(0, 0, 2, 2), <<>>), label |-> PyStr("Alpha")],
      [geometry |-> Polygon(Rect(2, 0, 4, 2), <<>>), label |-> PyStr("Gamma")],
      [geometry |-> Polygon(Triangle(0, 0, 4), <<>>), label |-> PyStr("Delta")],
      [geometry |-> Polygon(Rect(0, 0, 6, 6), <<Rect(2, 2, 4, 4)>>), label |-> None],
      [geometry |-> NoGeometry, label |-> PyStr("Zeta")] }

\* a record whose ring crosses itself
MalformedRegions ==
    { [geometry |-> InvalidPolygon(Bowtie(0, 0, 2)), label |-> PyStr("Zeta")] }

Schemas ==
    { <<"shape1", "shapeiso", GeometryColumn>>,
      <<"ST_NM", "DISTRICT", GeometryColumn>>,
      <<"DISTRICT", GeometryColumn>>,
      <<"status", "coordinates", GeometryColumn>>,
      <<"shape1", "ST_NM", GeometryColumn>> }

SeqsUpTo(S, n) == UNION {[1..k -> S] : k \in 0..n}

AttributeColumns(columns) ==
    {columns[i] : i \in 1..Len(columns)} \ {GeometryColumn}

Cell(col, region) ==
    IF region.label = None THEN None ELSE PyStr(col \o ":" \o region.label.str)

MissingFile == [exists |-> FALSE]
CorruptFile == [exists |-> TRUE, readable |-> FALSE]

CrsOnDisk == {Wgs84, Projected, None}

\* the shapefiles that may lie at data/india_States_level_1.shp
Shapefiles(regions) ==
    {MissingFile, CorruptFile} \cup
    { [exists |-> TRUE, readable |-> TRUE, crs |-> c, columns |-> s, regions |-> q] :
        c \in CrsOnDisk, s \in Schemas, q \in SeqsUpTo(regions, MaxRows) }

\* gpd.read_file(path): the frame in the file's own coordinate system
ReadFile(shp) ==
    [crs |-> shp.crs,
     columns |-> shp.columns,
     rows |-> [i \in 1..Len(shp.regions) |->
                 [geometry |-> IF shp.crs = Projected
                               THEN ProjectGeom(shp.regions[i].geometry)
                               ELSE shp.regions[i].geometry,
                  cells |-> [c \in AttributeColumns(shp.columns) |->
                               Cell(c, shp.regions[i])]]]]

(***************************************************************************)
(* Inputs of the requests.                                                 *)
(***************************************************************************)
LatSamples == {LatMin - 1, LatMin, LatMax, LatMax + 1} \cup (0..GridMax)
LonSamples == {LonMin - 1, LonMin, LonMax, LonMax + 1} \cup (0..GridMax)

BadArgs == {None, PyStr(<<"a", "b", "c">>), PyStr(NanText)}
LatArgs == BadArgs \cup {PyStr(Format(n)) : n \in LatSamples}
LonArgs == BadArgs \cup {PyStr(Format(n)) : n \in LonSamples}

\* the arguments of validate_coordinates: numbers around the limits, a str, nan
BadValues == {PyStr("abc"), NaN}
LatValues == BadValues \cup {PyNum(n) : n \in {LatMin - 1, LatMin, 0, LatMax, LatMax + 1}}
LonValues == BadValues \cup {PyNum(n) : n \in {LonMin - 1, LonMin, 0, LonMax, LonMax + 1}}

(***************************************************************************)
(* The state machine.                                                      *)
(***************************************************************************)
NotCalled == [notcalled |-> TRUE]
NoResp == [idle |-> TRUE]

Init ==
    /\ gdf = None
    /\ loadResult = NotCalled
    /\ resp = NoResp

\* load_shapefile(): called once, before the server starts
LoadShapefile(shp) ==
    /\ loadResult = NotCalled
    /\ resp = NoResp
    /\ IF ~shp.exists
       THEN gdf' = gdf /\ loadResult' = PyBool(FALSE)
       ELSE IF ~shp.readable
       THEN gdf' = gdf /\ loadResult' = PyBool(FALSE)
       ELSE IF ReadFile(shp).crs # Wgs84
       THEN IF ToCrsRaises(ReadFile(shp))
            THEN gdf' = ReadFile(shp) /\ loadResult' = PyBool(FALSE)
            ELSE gdf' = ToCrs(ReadFile(shp)) /\ loadResult' = PyBool(TRUE)
       ELSE gdf' = ReadFile(shp) /\ loadResult' = PyBool(TRUE)
    /\ UNCHANGED resp

\* GET /
Home ==
    /\ resp = NoResp
    /\ resp' = [op |-> "home", args |-> <<>>, code |-> 200,
                body |-> Put(EmptyDict, "file", PyStr("static/index.html"))]
    /\ UNCHANGED <<gdf, loadResult>>

\* GET /api
ApiInfo ==
    /\ resp = NoResp
    /\ resp' = [op |-> "api_info", args |-> <<>>, code |-> 200,
                body |-> Put(Put(EmptyDict, "message",
                                 PyStr("IIRS Reverse Geofencing API")),
                             "status",
                             PyStr(IF gdf # None THEN "active"
                                   ELSE "shapefile not loaded"))]
    /\ UNCHANGED <<gdf, loadResult>>

\* GET /locate?lat=..&lon=..
Locate(latArg, lonArg) ==
    /\ resp = NoResp
    /\ resp' = [op |-> "locate", args |-> <<latArg, lonArg>>,
                code |-> LocateAnswer(gdf, latArg, lonArg).code,
                body |-> LocateAnswer(gdf, latArg, lonArg).body]
    /\ UNCHANGED <<gdf, loadResult>>

\* GET /health
Health ==
    /\ resp = NoResp
    /\ resp' = [op |-> "health", args |-> <<>>, code |-> 200,
                body |-> Put(Put(Put(EmptyDict, "status", PyStr("healthy")),
                                 "shapefile_loaded", PyBool(gdf # None)),
                             "regions_count",
                             PyNum(IF gdf # None THEN FrameLen(gdf) ELSE 0))]
    /\ UNCHANGED <<gdf, loadResult>>

\* a call of utils.geo_utils.validate_coordinates
CallValidateCoordinates(lat, lon) ==
    /\ resp = NoResp
    /\ resp' = [op |-> "validate_coordinates", args |-> <<lat, lon>>,
                ret |-> ValidateCoordinates(lat, lon)]
    /\ UNCHANGED <<gdf, loadResult>>

\* a call of utils.geo_utils.point_in_polygon on the loaded frame
CallPointInPolygon(lat, lon) ==
    /\ resp = NoResp
    /\ gdf # None
    /\ resp' = [op |-> "point_in_polygon", args |-> <<lat, lon>>,
                ret |-> IF ContainsRaises(gdf)
                        THEN <<PyStr("raise"), PyStr("GEOSException")>>
                        ELSE PointInPolygonAnswer(gdf, lat, lon)]
    /\ UNCHANGED <<gdf, loadResult>>

\* the caller takes the answer; the next request can be served
Receive ==
    /\ resp # NoResp
    /\ resp' = NoResp
    /\ UNCHANGED <<gdf, loadResult>>

Requests ==
    \/ Home
    \/ ApiInfo
    \/ \E latArg \in LatArgs, lonArg \in LonArgs : Locate(latArg, lonArg)
    \/ Health
    \/ \E lat \in LatValues, lon \in LonValues : CallValidateCoordinates(lat, lon)
    \/ \E lat \in 0..GridMax, lon \in 0..GridMax :
          CallPointInPolygon(PyNum(lat), PyNum(lon))
    \/ Receive

Next ==
    \/ \E shp \in Shapefiles(Regions) : LoadShapefile(shp)
    \/ Requests

Spec == Init /\ [][Next]_vars

\* the same program, started on a shapefile that may hold malformed records
NextIntegrity ==
    \/ \E shp \in Shapefiles(Regions \cup MalformedRegions) : LoadShapefile(shp)
    \/ Requests

SpecIntegrity == Init /\ [][NextIntegrity]_vars

(***************************************************************************)
(* Vocabulary of the properties.                                           *)
(***************************************************************************)
Answered(op) == "op" \in DOMAIN resp /\ resp.op = op

\* the process holds a frame (also one left behind by a failed load)
HasStore == gdf # None

\* load_shapefile has returned True
Loaded == loadResult = PyBool(TRUE)

ArgLat == PyFloat(resp.args[1])
ArgLon == PyFloat(resp.args[2])

\* the answered /locate request carries two numbers inside the ranges
ValidLocate ==
    /\ Answered("locate")
    /\ ArgLat.ok /\ ArgLon.ok
    /\ Between(LatMin, ArgLat.val, LatMax)
    /\ Between(LonMin, ArgLon.val, LonMax)

LocatePoint == Point(ArgLon.val.num, ArgLat.val.num)

\* the point of the answered point_in_polygon call
HelperPoint == Point(resp.args[2].num, resp.args[1].num)

RowSeries(i) ==
    [index |-> gdf.columns,
     geometry |-> gdf.rows[i].geometry,
     cells |-> gdf.rows[i].cells]

WellFormed(i) == gdf.rows[i].geometry = NoGeometry \/ gdf.rows[i].geometry.valid

\* the records whose polygon has p in its interior
ContainingRows(p) ==
    {i \in 1..Len(gdf.rows) : WellFormed(i) /\ GeomContains(gdf.rows[i].geometry, p)}

\* the records whose polygon has p on an edge or a vertex
BoundaryRows(p) ==
    {i \in 1..Len(gdf.rows) : OnBoundary(gdf.rows[i].geometry, p)}

FirstOf(S) == CHOOSE i \in S : \A j \in S : i <= j

HasMalformed == \E i \in 1..Len(gdf.rows) : ~WellFormed(i)

\* C1: a valid point on an edge or a vertex of a stored polygon is contained:
\* locate answers 200 and point_in_polygon answers found, never not-found.
C1_BoundaryInclusive ==
    /\ (Loaded /\ ValidLocate /\ BoundaryRows(LocatePoint) # {})
          => resp.code = 200
    /\ (Loaded /\ Answered("point_in_polygon") /\ BoundaryRows(HelperPoint) # {})
          => resp.ret[1] = PyBool(TRUE)

C3_ValidQueryNeverErrors ==
    (Loaded /\ ValidLocate)
       => /\ resp.code \in {200, 404}
          /\ resp.code = 200 <=> ContainingRows(LocatePoint) # {}

\* C4: a /locate request with a missing, non-numeric or out-of-range lat or
\* lon is answered 400 with status 'error', whether the store is loaded or not.
C4_InvalidInputIs400 ==
    (Answered("locate") /\ ~ValidLocate)
       => resp.code = 400 /\ resp.body["status"] = PyStr("error")

\* C5: after load_shapefile has returned False the store is None, /health
\* reports it unloaded with no regions, /locate answers 'Shapefile not loaded'.
C5_FailedLoadLeavesNoStore ==
    (loadResult = PyBool(FALSE))
       => /\ gdf = None
          /\ Answered("health")
                => /\ resp.body["shapefile_loaded"] = PyBool(FALSE)
                   /\ resp.body["regions_count"] = PyNum(0)
          /\ Answered("locate") => resp.body["message"] = PyStr(MsgNotLoaded)

\* the fields a reason names
NamesLatitude(message) == message \in {PyStr(MsgParams), PyStr(MsgRange), PyStr(MsgLatitude)}
NamesLongitude(message) == message \in {PyStr(MsgParams), PyStr(MsgRange), PyStr(MsgLongitude)}

Rejected == Answered("locate") /\ resp.code = 400

LatOut(v) == ~Between(LatMin, v, LatMax)
LonOut(v) == ~Between(LonMin, v, LonMax)

\* C6 as stated: the reason of a rejection names latitude exactly when lat is
\* out of range and longitude exactly when lon is out of range, and names the
\* parameter that is missing or non-numeric, in locate and validate_coordinates.
C6_ReasonNamesTheFieldAtFault ==
    /\ Rejected =>
          IF ArgLat.ok /\ ArgLon.ok
          THEN /\ NamesLatitude(resp.body["message"]) <=> LatOut(ArgLat.val)
               /\ NamesLongitude(resp.body["message"]) <=> LonOut(ArgLon.val)
          ELSE /\ ~ArgLat.ok => NamesLatitude(resp.body["message"])
               /\ ~ArgLon.ok => NamesLongitude(resp.body["message"])
    /\ (Answered("validate_coordinates") /\ resp.ret[1] = PyBool(FALSE)) =>
          IF IsNumeric(resp.args[1]) /\ IsNumeric(resp.args[2])
          THEN /\ NamesLatitude(resp.ret[2]) <=> LatOut(resp.args[1])
               /\ NamesLongitude(resp.ret[2]) <=> LonOut(resp.args[2])
          ELSE /\ ~IsNumeric(resp.args[1]) => NamesLatitude(resp.ret[2])
               /\ ~IsNumeric(resp.args[2]) => NamesLongitude(resp.ret[2])

\* C6 amended: the reason of a rejection tells missing or non-numeric input
\* from out-of-range input.  locate names both parameters in either reason;
\* validate_coordinates names latitude exactly when lat is out of range,
\* longitude exactly when lat is in range and lon is out of range, and no
\* parameter when an argument is not numeric.
C6_ReasonTellsKindOfFault ==
    /\ Rejected =>
          /\ resp.body["message"] =
                IF ArgLat.ok /\ ArgLon.ok THEN PyStr(MsgRange) ELSE PyStr(MsgParams)
          /\ (ArgLat.ok /\ ArgLon.ok) => (LatOut(ArgLat.val) \/ LonOut(ArgLon.val))
          /\ NamesLatitude(resp.body["message"])
          /\ NamesLongitude(resp.body["message"])
    /\ (Answered("validate_coordinates") /\ resp.ret[1] = PyBool(FALSE)) =>
          IF IsNumeric(resp.args[1]) /\ IsNumeric(resp.args[2])
          THEN /\ NamesLatitude(resp.ret[2]) <=> LatOut(resp.args[1])
               /\ NamesLongitude(resp.ret[2]) <=>
                     (~LatOut(resp.args[1]) /\ LonOut(resp.args[2]))
          ELSE resp.ret[2] = PyStr(MsgNumeric)
    /\ Answered("validate_coordinates") =>
          (resp.ret[1] = PyBool(TRUE)) <=>
             /\ IsNumeric(resp.args[1]) /\ IsNumeric(resp.args[2])
             /\ ~LatOut(resp.args[1]) /\ ~LonOut(resp.args[2])

\* C6 witness: validate_coordinates has rejected a pair with both coordinates
\* out of range, naming latitude only.
C6_Witness ==
    /\ Answered("validate_coordinates")
    /\ IsNumeric(resp.args[1]) /\ IsNumeric(resp.args[2])
    /\ LatOut(resp.args[1]) /\ LonOut(resp.args[2])
    /\ resp.ret = <<PyBool(FALSE), PyStr(MsgLatitude)>>

\* C7: a record on which the containment test fails is skipped: the query is
\* answered from the well-formed records, 200 for the first that contains the
\* point, 404 when none does, not with an internal error.
C7_MalformedRecordIsSkipped ==
    (Loaded /\ ValidLocate /\ HasMalformed)
       => IF ContainingRows(LocatePoint) # {}
          THEN /\ resp.code = 200
               /\ resp.body = SuccessBody(RowSeries(FirstOf(ContainingRows(LocatePoint))),
                                          ArgLat.val, ArgLon.val)
          ELSE resp.code = 404

\* the answer before any attribute is added
BaseBody == Put(Put(EmptyDict, "status", PyStr("success")),
                "coordinates", Coordinates(ArgLat.val, ArgLon.val))

MatchedRow == RowSeries(FirstOf(ContainingRows(LocatePoint)))

\* no alias of any normalized key is a column of the record
NoAliasMatched(result) ==
    \A k \in 1..Len(PossibleNames) :
        \A a \in 1..Len(PossibleNames[k].cols) : ~InIndex(result, PossibleNames[k].cols[a])

\* C8: on success each normalized key comes from the first alias of its list
\* that is a column, and the raw columns are added exactly when no alias of any
\* key matched.
C8_RawFallbackOnlyWithoutAnyAlias ==
    (Loaded /\ ValidLocate /\ resp.code = 200)
       => resp.body = IF NoAliasMatched(MatchedRow)
                      THEN AddRawColumns(AddNames(BaseBody, MatchedRow), MatchedRow)
                      ELSE AddNames(BaseBody, MatchedRow)

\* the state labels of the store: the values of the first state alias it has
StateLabels ==
    LET a == FirstAlias(PossibleNames[1].cols, [index |-> gdf.columns])
    IN IF a = 0 THEN {}
       ELSE {Str(gdf.rows[i].cells[PossibleNames[1].cols[a]]) : i \in 1..Len(gdf.rows)}

\* C9: when no polygon contains the valid query point the answer is 404 with
\* the store size and the distinct state labels of the store, and no
\* attributes of a polygon.
C9_NotFoundCarriesCountAndLabels ==
    (Loaded /\ ValidLocate /\ ContainingRows(LocatePoint) = {})
       => /\ resp.code = 404
          /\ resp.body["note"] = Note(Len(gdf.rows))
          /\ {resp.body["available_regions"].list[i] :
                 i \in 1..Len(resp.body["available_regions"].list)} = StateLabels
          /\ DOMAIN resp.body =
                {"status", "message", "lat", "lon", "note", "available_regions"}

\* C10: a 200 answer of /locate has status 'success' and the coordinates of
\* the query, whatever the columns of the store are.
C10_SuccessKeepsStatusAndCoordinates ==
    (Loaded /\ Answered("locate") /\ resp.code = 200)
       => /\ resp.body["status"] = PyStr("success")
          /\ resp.body["coordinates"] = Coordinates(ArgLat.val, ArgLon.val)

====
